---- MODULE Spec2Model ----
(***************************************************************************)
(* The streaming event relay of ai-companion-server:                       *)
(*   app/services/agent_service.py  AgentService.stream_chat (normalizer)   *)
(*   app/main.py                    lifespan, websocket_endpoint            *)
(*   app/routers/chat.py            stream_chat / generate_stream (SSE)     *)
(*   app/models/schemas.py          ChatRequest, ChatStreamEvent, ToolCall  *)
(*   app/services/free_model_policy.py  the check of the configured model   *)
(*   app/services/memory_service.py, app/routers/memory.py  the memory store*)
(* Spec follows the whole server, one chat exchange at a time;             *)
(* SpecGenerateStream runs the body of POST /chat/stream for a request that *)
(* carries every attribute the handler reads; SpecMemory runs the /memory   *)
(* endpoints, with upserts of two clients interleaved; SpecPolicy runs      *)
(* FreeModelPolicyService with two concurrent callers and a clock; SpecCli  *)
(* runs scripts/select_openrouter_model.py; SpecLetta runs                  *)
(* app/utils/letta_patch.py against the SDK modules it patches.             *)
(* The upstream agent SDK is the environment: for each turn it behaves as a *)
(* script (a bounded sequence of messages, then end-of-turn or a raise).    *)
(* Values of app.config.settings are deployment inputs: they are kept       *)
(* symbolic, and reading them while the agent options are prepared may      *)
(* raise.                                                                   *)
(***************************************************************************)
EXTENDS Integers, Sequences, FiniteSets, TLC

\* ---- bounds -------------------------------------------------------------
MaxMsgs == 2      \* longest upstream response of one turn
MaxTurns == 2     \* chat actions and POST /chat/stream requests in one run
MaxMemCalls == 3  \* MemoryService calls in one run
MaxPolicyCalls == 2  \* calls into FreeModelPolicyService in one run
MaxClock == 2     \* seconds the clock runs
MaxPatchOps == 6  \* calls of apply_letta_patch, install and remove_letta_patch

\* ---- Python values ------------------------------------------------------
None == "None"

Truthy(s) == s # None /\ s # ""

\* dict literals are sets of <<key, value>> pairs; {} is the empty dict
DictGet(d, k) == IF \E p \in d : p[1] = k THEN (CHOOSE p \in d : p[1] = k)[2] ELSE None

\* ---- inputs -------------------------------------------------------------
Prompts == {"hello", ""}
RequestConvIds == {None, "c1"}
SessionTokens == {"T1"}
LegacyTools == {"WebSearch", "WebFetch", "Task", "TaskOutput"}

\* ---- app/models/schemas.py ----------------------------------------------
ChatRequestFields ==
    {"message", "conversation_id", "session_id", "include_memory", "tools_enabled", "stream"}

EventTypeLiteral ==
    {"conversation_id", "session_id", "message_start", "content_delta", "content_stop",
     "tool_use_start", "tool_use_delta", "tool_use_stop", "tool_result", "message_stop",
     "error", "thinking_start", "thinking_stop"}

\* ChatStreamEvent(event_type=kind, data=data): the envelope as constructed
ChatStreamEvent(kind, data) == [event_type |-> kind, data |-> data]

\* pydantic validation of the Literal field: construction raises otherwise
ValidEventType(kind) == kind \in EventTypeLiteral

ToolCall(id, name, status) == [id |-> id, name |-> name, status |-> status]

ChatMessage(role, content) == [role |-> role, content |-> content]

\* ChatRequest parsed from a JSON body: undeclared keys are ignored, declared
\* ones default
ChatRequestDefaults ==
    [message |-> "", conversation_id |-> None, session_id |-> None,
     include_memory |-> TRUE, tools_enabled |-> TRUE, stream |-> TRUE]

ParseChatRequest(body) ==
    [f \in ChatRequestFields |-> IF f \in DOMAIN body THEN body[f] ELSE ChatRequestDefaults[f]]

HasAttr(obj, name) == name \in DOMAIN obj

\* ---- exceptions ---------------------------------------------------------
Exception(type, msg) == [type |-> type, msg |-> msg]
ValidationError == Exception("ValidationError", "event_type: Input should be one of the literals")
AttributeError == Exception("AttributeError", "'ChatRequest' object has no attribute 'reset_session'")
UpstreamError(where) == Exception("ProcessError", where)
OptionsError == Exception("AttributeError", "'Settings' object has no attribute 'google_oauth_credentials'")
NoException == Exception(None, None)

\* ---- upstream (claude_agent_sdk) messages -------------------------------
Block(b, text, id, name, is_error) ==
    [block |-> b, text |-> text, id |-> id, name |-> name, is_error |-> is_error]
TextBlock(t) == Block("TextBlock", t, None, None, FALSE)
ThinkingBlock(t) == Block("ThinkingBlock", t, None, None, FALSE)
ToolUseBlock(id, name) == Block("ToolUseBlock", None, id, name, FALSE)
ToolResultBlock(id, is_error) == Block("ToolResultBlock", "out", id, None, is_error)

Message(type, subtype, sid, content) ==
    [type |-> type, subtype |-> subtype, session_id |-> sid, content |-> content]
SystemMessage(subtype, sid) == Message("SystemMessage", subtype, sid, <<>>)
UserMessage == Message("UserMessage", None, None, <<>>)
StreamEvent == Message("StreamEvent", None, None, <<>>)
ResultMessage == Message("ResultMessage", None, None, <<>>)
AssistantMessage(content) == Message("AssistantMessage", None, None, content)

AssistantContents ==
    { <<TextBlock("hi")>>,
      <<ThinkingBlock("hm"), TextBlock("hi")>>,
      <<ToolUseBlock("X", "WebSearch")>>,
      <<ToolResultBlock("X", TRUE)>>,
      <<ToolUseBlock("X", "Bash"), ToolResultBlock("X", FALSE), ToolResultBlock("X", FALSE)>> }

UpstreamMessages ==
    { SystemMessage("init", "T1"), SystemMessage("init", None), UserMessage, ResultMessage }
    \cup { AssistantMessage(c) : c \in AssistantContents }

SeqsUpTo(S, n) == UNION { [1..k -> S] : k \in 0..n }

\* what the environment does in one turn: _get_agent_options raises
\* ("prepare"), the session fails to open, the query fails, or the SDK
\* delivers msgs and then ends the turn ("none"), raises ("drain"), or ends
\* the turn and raises when the session's context managers exit ("close")
Scripts ==
    { [fail |-> f, msgs |-> <<>>] : f \in {"prepare", "open", "query"} }
    \cup { [fail |-> f, msgs |-> m] : f \in {"none", "drain", "close"}, m \in SeqsUpTo(UpstreamMessages, MaxMsgs) }

NoScript == [fail |-> "none", msgs |-> <<>>]

\* ---- app/services/agent_service.py: the normalizer ----------------------
\* _enforce_tool_policy(tool_name, allowed): raises PermissionError for the
\* legacy tools, returns allowed otherwise; no code path calls it
EnforceToolPolicy(tool_name, allowed) ==
    IF tool_name \in LegacyTools
    THEN [raised |-> Exception("PermissionError", "disabled, use the searxng MCP tools"),
          value |-> FALSE]
    ELSE [raised |-> NoException, value |-> allowed]

\* active_tool_calls: Dict[str, ToolCall], kept as the set of its values
ActiveHas(active, id) == \E tc \in active : tc.id = id

ActiveGet(active, id) == CHOOSE tc \in active : tc.id = id

ActivePut(active, tc) == { t \in active : t.id # tc.id } \cup {tc}

\* one `yield ChatStreamEvent(...)` statement of the loop body, with
\* active_tool_calls as it stands when the statement runs
Yield(kind, data, active) == [event_type |-> kind, data |-> data, active |-> active]

\* the body of `for block in msg.content` for one block
BlockYields(block, active) ==
    CASE block.block = "TextBlock" ->
           << Yield("content_delta", {<<"text", block.text>>}, active) >>
      [] block.block = "ThinkingBlock" ->
           << Yield("thinking_delta", {<<"thinking", block.text>>}, active) >>
      [] block.block = "ToolUseBlock" ->
           LET tool_call == ToolCall(block.id, block.name, "running")
           IN  << Yield("tool_use_start",
                        {<<"tool_call_id", tool_call.id>>, <<"tool_name", tool_call.name>>,
                         <<"tool_input", "input">>},
                        ActivePut(active, tool_call)) >>
      [] block.block = "ToolResultBlock" ->
           LET result == Yield("tool_result",
                               {<<"tool_use_id", block.id>>, <<"content", block.text>>,
                                <<"is_error", block.is_error>>},
                               active)
           IN  IF ActiveHas(active, block.id)
               THEN LET tool_call == ActiveGet(active, block.id)
                        done == [tool_call EXCEPT
                                   !.status = IF ~block.is_error THEN "completed" ELSE "failed"]
                    IN  << result,
                           Yield("tool_use_stop", {<<"tool_call", done>>}, ActivePut(active, done)) >>
               ELSE << result >>

RECURSIVE BlocksYields(_, _)
BlocksYields(content, active) ==
    IF content = <<>> THEN <<>>
    ELSE LET h == BlockYields(Head(content), active)
         IN  h \o BlocksYields(Tail(content), h[Len(h)].active)

\* msg.data of a SystemMessage
SystemData(msg) == IF msg.session_id # None THEN {<<"session_id", msg.session_id>>} ELSE {}

\* the yield statements the loop body reaches for one upstream message, in
\* program order (the isinstance dispatch of the `async for`)
MessageYields(msg, active) ==
    CASE msg.type = "SystemMessage" ->
           << Yield("system_message", SystemData(msg), active) >>
           \o (IF msg.subtype = "init" /\ msg.session_id # None
               THEN << Yield("system_init", SystemData(msg), active),
                       Yield("session_id", {<<"session_id", msg.session_id>>}, active) >>
               ELSE <<>>)
      [] msg.type = "UserMessage" ->
           << Yield("user_message", {<<"message", msg>>}, active) >>
      [] msg.type = "StreamEvent" ->
           << Yield("assistant_partial", {<<"message", msg>>}, active) >>
      [] msg.type = "AssistantMessage" ->
           LET blocks == BlocksYields(msg.content, active)
               after == IF blocks = <<>> THEN active ELSE blocks[Len(blocks)].active
           IN  << Yield("assistant_message", {<<"message", msg>>}, active) >>
               \o blocks
               \o << Yield("content_stop", {}, after) >>
      [] msg.type = "ResultMessage" ->
           << Yield("result", {<<"message", msg>>}, active) >>

DefaultMemoryLabels == <<"human", "persona", "preferences", "knowledge">>
NoLabels == <<>>    \* memory_labels=None
AgentName == "evolving-assistant"

NoEvent == [event_type |-> None, data |-> {}]

\* the async generator object returned by AgentService.stream_chat(...)
NewGenerator(message, conversation_id, memory_labels, session_id) ==
    [pc |-> "start", message |-> message, conversation_id |-> conversation_id,
     memory_labels |-> memory_labels, session_id |-> session_id,
     agent_id |-> None, memory_config |-> NoLabels, resume |-> None,
     pos |-> 1, pending |-> <<>>, active_tool_calls |-> {}]

NoGenerator == NewGenerator(None, None, NoLabels, None)

\* results of resuming the generator: it yields an event, returns, or lets
\* an exception escape
Yielded(g, ev) == [gen |-> g, event |-> ev, raised |-> NoException]
Returned(g) == [gen |-> [g EXCEPT !.pc = "closed"], event |-> NoEvent, raised |-> NoException]
Escaped(g, e) == [gen |-> [g EXCEPT !.pc = "closed"], event |-> NoEvent, raised |-> e]

\* `except Exception as e:` -- the error event ends the generator body
Except(g, e) ==
    IF ValidEventType("error")
    THEN Yielded([g EXCEPT !.pc = "stopped", !.pending = <<>>],
                 ChatStreamEvent("error", {<<"error", e.msg>>, <<"type", e.type>>}))
    ELSE Escaped(g, ValidationError)

\* a yield statement inside the try block
TryYield(g, kind, data) ==
    IF ValidEventType(kind) THEN Yielded(g, ChatStreamEvent(kind, data))
    ELSE Except(g, ValidationError)

\* the next statement of the `async for msg in client.receive_response()` loop
LoopNext(g, s) ==
    IF g.pending # <<>>
    THEN LET y == Head(g.pending)
         IN  TryYield([g EXCEPT !.pc = "loop", !.pending = Tail(g.pending),
                                !.active_tool_calls = y.active],
                      y.event_type, y.data)
    ELSE IF g.pos > Len(s.msgs)
    THEN IF s.fail = "drain" THEN Except(g, UpstreamError("receive_response"))
         ELSE TryYield([g EXCEPT !.pc = "closing"], "message_stop", {<<"stop_reason", "end_turn">>})
    ELSE LET ys == MessageYields(s.msgs[g.pos], g.active_tool_calls)
             y == Head(ys)
         IN  TryYield([g EXCEPT !.pc = "loop", !.pos = g.pos + 1, !.pending = Tail(ys),
                                !.active_tool_calls = y.active],
                      y.event_type, y.data)

\* AgentService.stream_chat: run the generator from its suspension point to
\* its next yield, against upstream behaviour s
Resume(g, s) ==
    CASE g.pc = "start" ->
           LET g1 == [g EXCEPT
                        !.agent_id = IF Truthy(g.conversation_id) THEN g.conversation_id ELSE AgentName,
                        !.memory_config = IF g.memory_labels # NoLabels THEN g.memory_labels
                                          ELSE DefaultMemoryLabels,
                        !.resume = IF Truthy(g.session_id) THEN g.session_id ELSE None,
                        !.pc = "open"]
           IN  IF s.fail = "prepare" THEN Escaped(g, OptionsError)
               ELSE IF ValidEventType("thinking_start")
               THEN Yielded(g1, ChatStreamEvent("thinking_start", {<<"message", "Thinking...">>}))
               ELSE Escaped(g1, ValidationError)
      [] g.pc = "open" ->
           IF s.fail = "open" THEN Except(g, UpstreamError("connect"))
           ELSE TryYield([g EXCEPT !.pc = "opened"], "thinking_stop", {})
      [] g.pc = "opened" ->
           TryYield([g EXCEPT !.pc = "query"], "message_start",
                    {<<"agent_id", g.agent_id>>, <<"model", "MODEL">>, <<"provider", "OpenRouter">>,
                     <<"memory_enabled", TRUE>>, <<"memory_blocks", g.memory_config>>})
      [] g.pc = "query" ->
           IF s.fail = "query" THEN Except(g, UpstreamError("query"))
           ELSE LoopNext([g EXCEPT !.active_tool_calls = {}], s)
      [] g.pc = "loop" -> LoopNext(g, s)
      [] g.pc = "closing" ->
           \* the two `async with` blocks exit inside the try
           IF s.fail = "close" THEN Except(g, UpstreamError("disconnect")) ELSE Returned(g)
      [] g.pc \in {"stopped", "closed"} -> Returned(g)

\* ---- app/services/free_model_policy.py ----------------------------------
OpenRouterAPIError == Exception("OpenRouterAPIError", "Failed to fetch OpenRouter models")
MissingOpenRouterAPIKeyError == Exception("MissingOpenRouterAPIKeyError", "OPENROUTER_API_KEY is not set")
ModelNotFoundError == Exception("ModelNotFoundError", "model was not found in the OpenRouter catalog")
ModelNotFreeError == Exception("ModelNotFreeError", "model is not free")
\* an httpx transport failure: not an OpenRouterAPIError
TransportError == Exception("ConnectError", "All connection attempts failed")

\* settings.openrouter_model_id
OpenrouterModelId == "vendor/model:free"

\* an entry of the catalogue's "data" array; pricing is the entry's whole
\* "pricing" object, None standing for a component it does not list
OpenRouterModelPriced(id, canonical_slug, prompt, completion, request, image) ==
    [id |-> id, canonical_slug |-> canonical_slug,
     pricing |-> [prompt |-> prompt, completion |-> completion, request |-> request,
                  image |-> image]]

OpenRouterModel(id, canonical_slug, prompt, completion, request) ==
    OpenRouterModelPriced(id, canonical_slug, prompt, completion, request, None)

\* Decimal(str(value)) in millionths; InvalidOperation for what is no number
Decimal(value) ==
    CASE value \in {"0", "0.0", "0.00"} -> [valid |-> TRUE, micro |-> 0]
      [] value = "0.000001" -> [valid |-> TRUE, micro |-> 1]
      [] OTHER -> [valid |-> FALSE, micro |-> 0]

price_is_zero(value) ==
    IF value \in {None, "", "0", "0.0"} THEN TRUE
    ELSE LET d == Decimal(value) IN d.valid /\ d.micro = 0

\* only the prompt price is looked at
is_free_prompt_only(model) == price_is_zero(model.pricing.prompt)

is_free(model) ==
    /\ price_is_zero(model.pricing.prompt)
    /\ price_is_zero(model.pricing.completion)
    /\ price_is_zero(model.pricing.request)

\* what the process finds around it at startup: the configured API key and
\* the answer of the models endpoint (status 0: the request itself failed)
Environments ==
    { [api_key |-> "", status |-> 200, models |-> <<>>],
      [api_key |-> "sk", status |-> 0, models |-> <<>>],
      [api_key |-> "sk", status |-> 500, models |-> <<>>],
      [api_key |-> "sk", status |-> 200, models |-> <<>>],
      [api_key |-> "sk", status |-> 200,
       models |-> << OpenRouterModel("other/model", None, "0.000001", "0.000001", None),
                     OpenRouterModel(OpenrouterModelId, None, "0", "0.00", None) >>],
      [api_key |-> "sk", status |-> 200,
       models |-> << OpenRouterModel(OpenrouterModelId, None, "0", "0.000001", "0") >>],
      [api_key |-> "sk", status |-> 200,
       models |-> << OpenRouterModel("other/model", None, "0", "0", "0") >>] }

NoEnvironment == [api_key |-> "", status |-> 0, models |-> <<>>]

fetch_from_api(env) ==
    IF ~Truthy(env.api_key) THEN [raised |-> MissingOpenRouterAPIKeyError, models |-> <<>>]
    ELSE IF env.status = 0 THEN [raised |-> TransportError, models |-> <<>>]
    ELSE IF env.status >= 400 THEN [raised |-> OpenRouterAPIError, models |-> <<>>]
    ELSE IF env.models = <<>> THEN [raised |-> OpenRouterAPIError, models |-> <<>>]
    ELSE [raised |-> NoException, models |-> env.models]

\* get_model lines 119-122, on what fetch_models gave
get_model_in(fetched, model_id) ==
    LET hits == { i \in 1..Len(fetched.models) :
                    \/ fetched.models[i].id = model_id
                    \/ fetched.models[i].canonical_slug = model_id }
    IN  IF fetched.raised # NoException THEN [raised |-> fetched.raised, models |-> <<>>]
        ELSE IF hits = {} THEN [raised |-> ModelNotFoundError, models |-> <<>>]
        ELSE [raised |-> NoException,
              models |-> << fetched.models[CHOOSE i \in hits : \A j \in hits : i <= j] >>]

get_model(model_id, env) == get_model_in(fetch_from_api(env), model_id)

\* ensure_model_is_free lines 126-129, on what fetch_models gave
ensure_model_is_free_in(fetched, model_id) ==
    LET found == get_model_in(fetched, model_id)
    IN  IF found.raised # NoException THEN found
        ELSE IF ~is_free(found.models[1]) THEN [raised |-> ModelNotFreeError, models |-> <<>>]
        ELSE found

ensure_model_is_free(model_id, env) == ensure_model_is_free_in(fetch_from_api(env), model_id)

\* ---- app/main.py: startup ------------------------------------------------
RuntimeError(exc) == Exception("RuntimeError", exc.msg)

verify_openrouter_free_model(env) ==
    LET checked == ensure_model_is_free(OpenrouterModelId, env)
    IN  IF checked.raised.type \in {"MissingOpenRouterAPIKeyError", "ModelNotFoundError",
                                    "ModelNotFreeError", "OpenRouterAPIError"}
        THEN RuntimeError(checked.raised)
        ELSE checked.raised

\* ---- state ---------------------------------------------------------------
VARIABLES
    startup,            \* lifespan: phase, what it found, what it raised
    db,                 \* conversations table: id -> row, None where no row
    auditLog,           \* contents of chat-stream.log
    httpRequests,       \* POST /chat/stream handlers waiting at line 59
    httpResponse,       \* outcome of the latest POST /chat/stream
    sessions,           \* ClaudeSDKClient sessions opened: [agent_id, resume]
    wsConnected,        \* manager.active_connections holds the client
    wsConversationId,   \* websocket_endpoint: conversation_id
    wsMessages,         \* websocket_endpoint: messages
    turns,              \* chat actions and HTTP requests handled so far
    pc,                 \* "idle", "streaming", "done", "aborted", "disconnected"
    turn,               \* locals of the transport loop of the turn in flight
    gen,                \* the AgentService.stream_chat generator of the turn
    script,             \* what the upstream SDK does in this turn
    sent,               \* frames delivered to the client in this turn
    memory_blocks,      \* memory_blocks table: the rows
    memRequests,        \* /memory handlers in flight
    memLog,             \* MemoryService calls started, the latest upsert_memory calls
    memUuids,           \* uuid4() values handed out to create_memory
    policy,             \* FreeModelPolicyService: api_key, cache, expiry, ttl
    now,                \* datetime.now(timezone.utc), in seconds
    policyLock,         \* FreeModelPolicyService._lock: its holder, 0 when free
    policyCalls,        \* the callers of the service and where they stand
    apiLog,             \* the GETs sent to the models endpoint
    env_files,          \* the env files on disk: path -> [exists, lines]
    cli,                \* the latest run of scripts/select_openrouter_model.py
    letta               \* letta_patch.py's global and the SDK modules it patches

chatvars == <<db, auditLog, httpRequests, httpResponse, sessions, wsConnected, wsConversationId,
              wsMessages, turns, pc, turn, gen, script, sent>>

memvars == <<memory_blocks, memRequests, memLog, memUuids>>

policyvars == <<policy, now, policyLock, policyCalls, apiLog>>

\* what the server's actions leave alone
clivars == <<env_files, cli>>

toolvars == <<policyvars, clivars, letta>>

vars == <<startup, chatvars, memvars, toolvars>>

ConvIds == {"c1", "uuid-1", "uuid-2", "uuid-3"}

\* str(uuid.uuid4()): a fresh id per request
Uuid(n) == IF n = 1 THEN "uuid-1" ELSE IF n = 2 THEN "uuid-2" ELSE "uuid-3"

NoRow == [exists |-> FALSE, messages |-> <<>>, extra_data |-> None]
Row(messages, extra_data) == [exists |-> TRUE, messages |-> messages, extra_data |-> extra_data]

NoTurn ==
    [transport |-> None, message |-> None, conversation_id |-> None, session_id |-> None,
     conv |-> NoRow, all_messages |-> <<>>, assistant_content |-> "",
     captured_session_id |-> None, captured_events |-> <<>>, commits |-> 0,
     raised |-> NoException]

NoAudit == [written |-> FALSE, saved_at |-> None, conversation_id |-> None, events |-> <<>>]
NoResponse == [body |-> [message |-> None], status |-> 0, raised |-> NoException, concurrent |-> {}]

\* the clients that may have a POST /chat/stream open at the same time
HttpClients == {1, 2}
NoRequest == [pc |-> "idle", body |-> [message |-> None], conversation_id |-> None, conv |-> NoRow]

\* the clients that may have a /memory request open at the same time
MemClients == {1, 2}
NoMemRequest ==
    [pc |-> "idle", items |-> <<>>, existing |-> <<>>, clean |-> TRUE, matched |-> 0, id_taken |-> FALSE]

\* free_model_policy.py 182: the singleton, as constructed
DEFAULT_CACHE_TTL_SECONDS == 300
NewPolicy(api_key, cache_ttl_seconds) ==
    [api_key |-> api_key, cache_ttl_seconds |-> cache_ttl_seconds,
     cache |-> <<>>, cache_expiry |-> <<>>]

\* the tasks that may be inside the service at the same time
PolicyClients == {1, 2}
NoFetch == [raised |-> NoException, models |-> <<>>]
NoCall == [pc |-> "idle", call |-> None, force_refresh |-> FALSE, model_id |-> None,
           fetched |-> NoFetch, outcome |-> NoFetch, nth |-> 0, beside |-> {},
           stale |-> FALSE, api_key |-> None]

\* scripts/select_openrouter_model.py: the files run_cli may touch
EnvPaths == {".env", "prod.env", ".env.example"}
NoFile == [exists |-> FALSE, lines |-> <<>>]
NoRun == [ran |-> FALSE, args |-> [env_file |-> ".env", update_example |-> FALSE,
                                   dry_run |-> FALSE],
          raised |-> NoException, selection |-> <<>>, exit_code |-> 0,
          before |-> [path \in EnvPaths |-> NoFile]]

\* letta_patch.py 10, and the SDK as it is before any import or patch
Unpatched ==
    [original_save |-> None,                \* _original_save
     save_fn |-> "_save_conversation_turn_async",  \* utils' attribute
     interceptors_imported |-> FALSE, utils_imported |-> FALSE,
     init_hooks |-> 0, utils_hooks |-> 0,  \* post import hooks waiting
     install_wraps |-> 0,                   \* patched_install layers on install
     last |-> None, ops |-> 0]

NotStarted == [phase |-> "starting", env |-> NoEnvironment, raised |-> NoException]

\* the wire frame {"event": ..., "data": ...}
Frame(kind, data) == [event |-> kind, data |-> data]

Init ==
    /\ startup = NotStarted
    /\ db = [c \in ConvIds |-> NoRow]
    /\ auditLog = NoAudit
    /\ httpRequests = [c \in HttpClients |-> NoRequest]
    /\ httpResponse = NoResponse
    /\ sessions = <<>>
    /\ wsConnected = TRUE
    /\ wsConversationId = None
    /\ wsMessages = <<>>
    /\ turns = 0
    /\ pc = "idle"
    /\ turn = NoTurn
    /\ gen = NoGenerator
    /\ script = NoScript
    /\ sent = <<>>
    /\ memory_blocks = {}
    /\ memRequests = [c \in MemClients |-> NoMemRequest]
    /\ memLog = [started |-> 0, upserts |-> <<>>]
    /\ memUuids = 0
    /\ policy = NewPolicy("sk", DEFAULT_CACHE_TTL_SECONDS)
    /\ now = 0
    /\ policyLock = 0
    /\ policyCalls = [started |-> 0, of |-> [c \in PolicyClients |-> NoCall]]
    /\ apiLog = <<>>
    /\ env_files = [path \in EnvPaths |-> NoFile]
    /\ cli = NoRun
    /\ letta = Unpatched

\* main.py 60-64: the application serves requests only after lifespan has
\* reached its yield; an exception before it ends the process
lifespan ==
    /\ startup.phase = "starting"
    /\ \E env \in Environments :
         LET raised == verify_openrouter_free_model(env)
         IN  startup' = [phase |-> IF raised = NoException THEN "serving" ELSE "aborted",
                         env |-> env, raised |-> raised]
    /\ UNCHANGED <<toolvars, chatvars, memvars>>

MemoryLabels(include_memory) == IF include_memory THEN DefaultMemoryLabels ELSE NoLabels

\* ---- app/main.py: websocket_endpoint, action == "chat" -------------------
\* one exchange is followed at a time: a chat action starts when no turn and
\* no POST /chat/stream is in progress
ws_chat ==
    /\ startup.phase = "serving"
    /\ pc = "idle"
    /\ \A c \in HttpClients : httpRequests[c].pc = "idle"
    /\ wsConnected
    /\ turns < MaxTurns
    /\ \E message_text \in Prompts, cid \in RequestConvIds, include_memory \in BOOLEAN, s \in Scripts :
         LET conversation_id ==
                 IF Truthy(cid) THEN cid
                 ELSE IF Truthy(wsConversationId) THEN wsConversationId
                 ELSE Uuid(turns + 1)
         IN  /\ wsConversationId' = conversation_id
             /\ wsMessages' = Append(wsMessages, ChatMessage("user", message_text))
             /\ sent' = << Frame("conversation_id", {<<"id", conversation_id>>}) >>
             /\ gen' = NewGenerator(message_text, conversation_id, MemoryLabels(include_memory), None)
             /\ turn' = [NoTurn EXCEPT !.transport = "ws", !.message = message_text,
                                       !.conversation_id = conversation_id]
             /\ script' = s
    /\ turns' = turns + 1
    /\ pc' = "streaming"
    /\ UNCHANGED <<toolvars, startup, db, auditLog, httpRequests, httpResponse, sessions, wsConnected, memvars>>

\* main.py 192-196: the client goes away during a turn; the next send raises,
\* the handler leaves its loop and drops the connection, and its locals
\* (messages, assistant_content, the generator) go with it
ws_disconnect ==
    /\ pc = "streaming"
    /\ turn.transport = "ws"
    /\ wsConnected
    /\ wsConnected' = FALSE
    /\ wsMessages' = <<>>
    /\ wsConversationId' = None
    /\ gen' = NoGenerator
    /\ script' = NoScript
    /\ pc' = "disconnected"
    /\ UNCHANGED <<toolvars, startup, db, auditLog, httpRequests, httpResponse, sessions, turns, turn, sent,
                   memvars>>

\* ---- app/routers/chat.py: POST /chat/stream ------------------------------
RequestBodies ==
    [message : {"hello"}, conversation_id : RequestConvIds, session_id : {None} \cup SessionTokens]
    \cup [message : {"hello"}, conversation_id : RequestConvIds,
          session_id : {None} \cup SessionTokens, reset_session : BOOLEAN]

\* lines 62-67: request > database > None, reset_session forces None
ResolveSessionId(request, conv) ==
    LET session_id == IF request.reset_session THEN None ELSE request.session_id
    IN  IF ~Truthy(session_id) /\ ~request.reset_session /\ conv.exists /\ conv.extra_data # None
        THEN conv.extra_data
        ELSE session_id

\* lines 57-59: the handler looks the conversation up and waits for the store;
\* the clients are interchangeable, so the lowest free one takes the request
http_request(c) ==
    /\ startup.phase = "serving"
    /\ pc = "idle"
    /\ httpRequests[c].pc = "idle"
    /\ \A o \in HttpClients : o < c => httpRequests[o].pc = "lookup"
    /\ turns < MaxTurns
    /\ turns' = turns + 1
    /\ \E body \in RequestBodies :
         LET request == ParseChatRequest(body)
             conversation_id ==
                 IF Truthy(request.conversation_id) THEN request.conversation_id ELSE Uuid(turns + 1)
             conv == IF Truthy(request.conversation_id) THEN db[conversation_id] ELSE NoRow
         IN  httpRequests' = [httpRequests EXCEPT ![c] =
                                 [pc |-> "lookup", body |-> body,
                                  conversation_id |-> conversation_id, conv |-> conv]]
    /\ UNCHANGED <<toolvars, startup, db, auditLog, httpResponse, sessions, wsConnected, wsConversationId,
                   wsMessages, pc, turn, gen, script, sent, memvars>>

\* lines 69-96: the locals generate_stream closes over and its first yield
StartStream(request, conversation_id, conv, session_id) ==
    LET existing_messages == IF conv.exists THEN conv.messages ELSE <<>>
    IN  /\ \E s \in Scripts : script' = s
        /\ gen' = NewGenerator(request.message, conversation_id,
                               MemoryLabels(request.include_memory), session_id)
        /\ turn' = [NoTurn EXCEPT
                      !.transport = "sse", !.message = request.message,
                      !.conversation_id = conversation_id,
                      !.session_id = session_id,
                      !.conv = conv,
                      !.captured_session_id = session_id,
                      !.all_messages = Append(existing_messages,
                                              ChatMessage("user", request.message)),
                      !.captured_events =
                          << Frame("conversation_id", {<<"id", conversation_id>>}) >>]
        /\ sent' = << Frame("conversation_id", {<<"id", conversation_id>>}) >>
        /\ pc' = "streaming"

\* lines 61-150: the rest of the handler
http_stream_chat(c) ==
    /\ pc = "idle"
    /\ httpRequests[c].pc = "lookup"
    /\ httpRequests' = [httpRequests EXCEPT ![c] = NoRequest]
    /\ LET body == httpRequests[c].body
           request == ParseChatRequest(body)
           conv == httpRequests[c].conv
           conversation_id == httpRequests[c].conversation_id
           concurrent == { httpRequests[o].conversation_id :
                             o \in { x \in HttpClients \ {c} : httpRequests[x].pc = "lookup" } }
       IN  IF ~HasAttr(request, "reset_session")
           THEN \* request.reset_session raises; the framework answers 500
                /\ httpResponse' = [body |-> body, status |-> 500, raised |-> AttributeError,
                                    concurrent |-> concurrent]
                /\ UNCHANGED <<pc, turn, gen, script, sent>>
           ELSE /\ httpResponse' = [body |-> body, status |-> 200, raised |-> NoException,
                                    concurrent |-> concurrent]
                /\ StartStream(request, conversation_id, conv, ResolveSessionId(request, conv))
    /\ UNCHANGED <<toolvars, startup, db, auditLog, sessions, wsConnected, wsConversationId, wsMessages,
                   turns, memvars>>

\* ---- the transport loop: `async for event in agent_service.stream_chat` --
\* main.py 161-169 and chat.py 91-105: relay one event and accumulate
Relay(t, ev) ==
    LET acc == IF ev.event_type = "content_delta"
               THEN [t EXCEPT !.assistant_content = @ \o DictGet(ev.data, "text")]
               ELSE t
    IN  IF t.transport = "sse"
        THEN [acc EXCEPT
                !.captured_events = Append(@, Frame(ev.event_type, ev.data)),
                !.captured_session_id =
                    IF ev.event_type = "session_id" THEN DictGet(ev.data, "session_id") ELSE @]
        ELSE acc

stream_event ==
    /\ pc = "streaming"
    /\ LET r == Resume(gen, script)
       IN  /\ r.event # NoEvent \/ r.raised # NoException
           /\ gen' = r.gen
           /\ sessions' = IF gen.pc = "open" /\ script.fail # "open"
                          THEN Append(sessions, [agent_id |-> gen.agent_id, resume |-> gen.resume])
                          ELSE sessions
           /\ IF r.raised = NoException
              THEN /\ turn' = Relay(turn, r.event)
                   /\ sent' = Append(sent, Frame(r.event.event_type, r.event.data))
                   /\ UNCHANGED <<pc, wsConnected>>
              ELSE \* the exception leaves the generator: main.py 194-196 reports it
                   \* and drops the client; the SSE response is cut
                   /\ turn' = [turn EXCEPT !.raised = r.raised]
                   /\ sent' = IF turn.transport = "ws"
                              THEN Append(sent, Frame("error", {<<"error", r.raised.msg>>}))
                              ELSE sent
                   /\ wsConnected' = IF turn.transport = "ws" THEN FALSE ELSE wsConnected
                   /\ pc' = "aborted"
    /\ UNCHANGED <<toolvars, startup, db, auditLog, httpRequests, httpResponse, wsConversationId, wsMessages,
                   turns, script, memvars>>

\* chat.py 110-125: upsert of the conversation row
SaveConversation(row, all_messages, captured_session_id) ==
    IF row.exists
    THEN Row(all_messages,
             IF Truthy(captured_session_id) THEN captured_session_id ELSE row.extra_data)
    ELSE Row(all_messages,
             IF Truthy(captured_session_id) THEN captured_session_id ELSE None)

\* the transport forgets the closing sentinel
SendDoneSkipped(frames) == frames

\* main.py 174 / chat.py 140: the closing sentinel
SendDone(frames) == Append(frames, Frame("done", {}))

\* what the store and the file system do with the writes that end an SSE turn
WriteOutcomes == {"ok", "commit fails", "write_text fails"}
OperationalError == Exception("OperationalError", "database is locked")
OSError == Exception("OSError", "No space left on device")

\* the generator is exhausted: main.py 171-174, chat.py 107-140
turn_finish ==
    /\ pc = "streaming"
    /\ LET r == Resume(gen, script)
           assistant_content == turn.assistant_content
       IN  /\ r.event = NoEvent /\ r.raised = NoException
           /\ gen' = r.gen
           /\ IF turn.transport = "ws"
              THEN /\ wsMessages' = IF assistant_content # ""
                                    THEN Append(wsMessages, ChatMessage("assistant", assistant_content))
                                    ELSE wsMessages
                   /\ sent' = SendDone(sent)
                   /\ pc' = "done"
                   /\ UNCHANGED <<db, auditLog, turn>>
              ELSE \E outcome \in WriteOutcomes :
                   LET all_messages ==
                           IF assistant_content # ""
                           THEN Append(turn.all_messages, ChatMessage("assistant", assistant_content))
                           ELSE turn.all_messages
                       saved == [turn EXCEPT !.all_messages = all_messages, !.commits = @ + 1]
                   IN  /\ db' = IF outcome = "commit fails" THEN db
                                ELSE [db EXCEPT ![turn.conversation_id] =
                                        SaveConversation(@, all_messages, turn.captured_session_id)]
                       /\ auditLog' = IF outcome = "ok"
                                      THEN [written |-> TRUE, saved_at |-> "utcnow",
                                            conversation_id |-> turn.conversation_id,
                                            events |-> turn.captured_events]
                                      ELSE auditLog
                       /\ turn' = CASE outcome = "ok" -> [saved EXCEPT !.captured_events = SendDone(@)]
                                    [] outcome = "commit fails" -> [saved EXCEPT !.raised = OperationalError]
                                    [] OTHER -> [saved EXCEPT !.raised = OSError]
                       /\ sent' = IF outcome = "ok" THEN SendDone(sent) ELSE sent
                       /\ pc' = IF outcome = "ok" THEN "done" ELSE "aborted"
                       /\ UNCHANGED wsMessages
    /\ UNCHANGED <<toolvars, startup, httpRequests, httpResponse, sessions, wsConnected, wsConversationId,
                   turns, script, memvars>>

\* the handler goes back to waiting for the next request; the locals of the
\* finished turn are gone
turn_reset ==
    /\ pc \in {"done", "aborted", "disconnected"}
    /\ pc' = "idle"
    /\ turn' = NoTurn
    /\ gen' = NoGenerator
    /\ script' = NoScript
    /\ sent' = <<>>
    /\ UNCHANGED <<toolvars, startup, db, auditLog, httpRequests, httpResponse, sessions, wsConnected,
                   wsConversationId, wsMessages, turns, memvars>>

Next ==
    \/ lifespan
    \/ ws_chat
    \/ ws_disconnect
    \/ \E c \in HttpClients : http_request(c)
    \/ \E c \in HttpClients : http_stream_chat(c)
    \/ stream_event
    \/ turn_finish
    \/ turn_reset

Spec == Init /\ [][Next]_vars

\* ---- generate_stream on its own ------------------------------------------
\* chat.py 57-150 for a request object that carries every attribute the
\* handler reads
StreamTokens == {"T1", "T2"}

StreamRequests ==
    [message : {"hello"}, conversation_id : {"c1"}, include_memory : {TRUE}, stream : {TRUE},
     session_id : {None} \cup StreamTokens, reset_session : BOOLEAN]

generate_stream ==
    /\ startup.phase = "serving"
    /\ pc = "idle"
    /\ turns < MaxTurns
    /\ turns' = turns + 1
    /\ \E request \in StreamRequests :
         LET conversation_id ==
                 IF Truthy(request.conversation_id) THEN request.conversation_id ELSE Uuid(turns + 1)
             conv == IF Truthy(request.conversation_id) THEN db[conversation_id] ELSE NoRow
         IN  StartStream(request, conversation_id, conv, ResolveSessionId(request, conv))
    /\ UNCHANGED <<toolvars, startup, db, auditLog, httpRequests, httpResponse, sessions, wsConnected,
                   wsConversationId, wsMessages, memvars>>

NextGenerateStream ==
    \/ lifespan
    \/ generate_stream
    \/ stream_event
    \/ turn_finish
    \/ turn_reset

SpecGenerateStream == Init /\ [][NextGenerateStream]_vars

\* ---- app/services/memory_service.py, app/routers/memory.py ---------------
MemoryTypes == {"persona"}
MemoryKeys == {"name", "mood"}
MemoryValues == {"v1", "v2"}
MemoryIds == {None, "m1"}

\* the MemoryBlock bodies the clients send
MemoryBlock == [id : MemoryIds, type : MemoryTypes, key : MemoryKeys, value : MemoryValues]

\* a row of memory_blocks; id is the only key of the table
MemoryBlockDB(id, type, key, value) == [id |-> id, type |-> type, key |-> key, value |-> value]

\* str(uuid.uuid4())
MemUuid(n) == <<"uuid-a", "uuid-b", "uuid-c", "uuid-d", "uuid-e", "uuid-f">>[n]

IntegrityError == Exception("IntegrityError", "UNIQUE constraint failed: memory_blocks.id")
MultipleResultsFound == Exception("MultipleResultsFound", "Multiple rows were found when one or none was required")
NotFound == Exception("HTTPException", "Memory not found")

RowsByKey(table, type, key) == { r \in table : r.type = type /\ r.key = key }
HasId(table, id) == \E r \in table : r.id = id

create_memory(table, memory, uuid) ==
    LET memory_id == IF Truthy(memory.id) THEN memory.id ELSE uuid
    IN  IF HasId(table, memory_id)
        THEN [raised |-> IntegrityError, table |-> table, id |-> None]
        ELSE [raised |-> NoException,
              table |-> table \cup {MemoryBlockDB(memory_id, memory.type, memory.key, memory.value)},
              id |-> memory_id]

\* scalar_one_or_none(): no row, the row, or an exception for several
get_memory_by_key(table, type, key) ==
    LET hits == RowsByKey(table, type, key)
    IN  IF Cardinality(hits) > 1 THEN [raised |-> MultipleResultsFound, existing |-> <<>>]
        ELSE IF hits = {} THEN [raised |-> NoException, existing |-> <<>>]
        ELSE [raised |-> NoException, existing |-> << CHOOSE r \in hits : TRUE >>]

update_memory(table, memory_id, value) ==
    [raised |-> NoException,
     table |-> { IF r.id = memory_id THEN [r EXCEPT !.value = value] ELSE r : r \in table },
     id |-> IF HasId(table, memory_id) THEN memory_id ELSE None]

delete_memory(table, memory_id) ==
    [raised |-> IF HasId(table, memory_id) THEN NoException ELSE NotFound,
     table |-> { r \in table : r.id # memory_id },
     id |-> None]

\* the row found by the lookup is ignored
upsert_insert_only(table, existing, memory, uuid) == create_memory(table, memory, uuid)

\* upsert_memory after its lookup: lines 115-122
upsert_write(table, existing, memory, uuid) ==
    IF existing # <<>>
    THEN update_memory(table, existing[1].id, memory.value)
    ELSE create_memory(table, memory, uuid)

\* POST /memory/bulk bodies
BulkBodies ==
    { << [id |-> None, type |-> "persona", key |-> k, value |-> "v1"],
         [id |-> None, type |-> "persona", key |-> k, value |-> "v2"] >> : k \in MemoryKeys }

\* the latest two upsert_memory calls with no other call completed between
Window(upserts, entry) ==
    IF Len(upserts) = 2 THEN <<upserts[2], entry>> ELSE Append(upserts, entry)

\* a call has completed while these requests were between lookup and write
Disturb(requests) ==
    [c \in MemClients |->
        IF requests[c].pc = "write" THEN [requests[c] EXCEPT !.clean = FALSE] ELSE requests[c]]

\* a call that is not an upsert came and went
OtherCall(log) == [started |-> log.started + 1, upserts |-> <<>>]

\* POST /memory/
mem_create ==
    /\ startup.phase = "serving"
    /\ memLog.started < MaxMemCalls
    /\ \E memory \in MemoryBlock :
         LET r == create_memory(memory_blocks, memory, MemUuid(memUuids + 1))
         IN  /\ memory_blocks' = r.table
             /\ memUuids' = IF Truthy(memory.id) THEN memUuids ELSE memUuids + 1
    /\ memLog' = OtherCall(memLog)
    /\ memRequests' = Disturb(memRequests)
    /\ UNCHANGED <<toolvars, startup, chatvars>>

\* PUT /memory/{memory_id}: 404 for an unknown id
mem_update ==
    /\ startup.phase = "serving"
    /\ memLog.started < MaxMemCalls
    /\ \E memory_id \in { r.id : r \in memory_blocks } \cup {"m1"}, value \in MemoryValues :
         memory_blocks' = update_memory(memory_blocks, memory_id, value).table
    /\ memLog' = OtherCall(memLog)
    /\ memRequests' = Disturb(memRequests)
    /\ UNCHANGED <<toolvars, startup, chatvars, memUuids>>

\* DELETE /memory/{memory_id}
mem_delete ==
    /\ startup.phase = "serving"
    /\ memLog.started < MaxMemCalls
    /\ \E memory_id \in { r.id : r \in memory_blocks } \cup {"m1"} :
         memory_blocks' = delete_memory(memory_blocks, memory_id).table
    /\ memLog' = OtherCall(memLog)
    /\ memRequests' = Disturb(memRequests)
    /\ UNCHANGED <<toolvars, startup, chatvars, memUuids>>

\* upsert_memory line 113 for the first of `items`: the lookup, up to the
\* await of its result
Lookup(c, items) ==
    LET memory == Head(items)
        r == get_memory_by_key(memory_blocks, memory.type, memory.key)
        matched == Cardinality(RowsByKey(memory_blocks, memory.type, memory.key))
        id_taken == Truthy(memory.id) /\ HasId(memory_blocks, memory.id)
    IN  IF r.raised # NoException
        THEN /\ memRequests' = [Disturb(memRequests) EXCEPT ![c] = NoMemRequest]
             /\ memLog' = [started |-> memLog.started + 1,
                           upserts |-> Window(memLog.upserts,
                               [memory |-> memory, clean |-> TRUE, matched |-> matched,
                                id_taken |-> id_taken, raised |-> r.raised, id |-> None])]
        ELSE /\ memRequests' = [memRequests EXCEPT ![c] =
                                  [pc |-> "write", items |-> items, existing |-> r.existing,
                                   clean |-> TRUE, matched |-> matched, id_taken |-> id_taken]]
             /\ memLog' = [memLog EXCEPT !.started = @ + 1]

\* POST /memory/upsert; the clients are interchangeable, so the lowest free
\* one takes the request
mem_upsert(c) ==
    /\ startup.phase = "serving"
    /\ memLog.started < MaxMemCalls
    /\ memRequests[c].pc = "idle"
    /\ \A o \in MemClients : o < c => memRequests[o].pc # "idle"
    /\ \E memory \in MemoryBlock : Lookup(c, <<memory>>)
    /\ UNCHANGED <<toolvars, startup, chatvars, memory_blocks, memUuids>>

\* POST /memory/bulk: one upsert_memory per entry, in order
mem_bulk(c) ==
    /\ startup.phase = "serving"
    /\ memLog.started < MaxMemCalls
    /\ memRequests[c].pc = "idle"
    /\ \A o \in MemClients : o < c => memRequests[o].pc # "idle"
    /\ \E memories \in BulkBodies : Lookup(c, memories)
    /\ UNCHANGED <<toolvars, startup, chatvars, memory_blocks, memUuids>>

\* POST /memory/bulk goes on to its next entry
mem_lookup(c) ==
    /\ memRequests[c].pc = "lookup"
    /\ memLog.started < MaxMemCalls
    /\ Lookup(c, memRequests[c].items)
    /\ UNCHANGED <<toolvars, startup, chatvars, memory_blocks, memUuids>>

\* upsert_memory lines 115-122: the write that follows the lookup
mem_write(c) ==
    /\ memRequests[c].pc = "write"
    /\ LET req == memRequests[c]
           memory == Head(req.items)
           r == upsert_write(memory_blocks, req.existing, memory, MemUuid(memUuids + 1))
       IN  /\ memory_blocks' = r.table
           /\ memUuids' = IF req.existing = <<>> /\ ~Truthy(memory.id)
                          THEN memUuids + 1 ELSE memUuids
           /\ memLog' = [memLog EXCEPT
                           !.upserts = Window(@,
                               [memory |-> memory, clean |-> req.clean, matched |-> req.matched,
                                id_taken |-> req.id_taken, raised |-> r.raised, id |-> r.id])]
           /\ memRequests' = [Disturb(memRequests) EXCEPT ![c] =
                                IF r.raised # NoException \/ Tail(req.items) = <<>>
                                THEN NoMemRequest
                                ELSE [NoMemRequest EXCEPT !.pc = "lookup", !.items = Tail(req.items)]]
    /\ UNCHANGED <<toolvars, startup, chatvars>>

NextMemory ==
    \/ lifespan
    \/ mem_create
    \/ mem_update
    \/ mem_delete
    \/ \E c \in MemClients : mem_upsert(c)
    \/ \E c \in MemClients : mem_bulk(c)
    \/ \E c \in MemClients : mem_lookup(c)
    \/ \E c \in MemClients : mem_write(c)

SpecMemory == Init /\ [][NextMemory]_vars

\* ---- app/services/free_model_policy.py: the service and its cache -------
\* what the marketplace's models endpoint may answer to one GET
ApiAnswers ==
    { [status |-> 500, models |-> <<>>],
      [status |-> 200,
       models |-> << OpenRouterModel("free/model", None, "0", "0", "0"),
                     OpenRouterModel("paid/model", None, "0.000001", "0", "0") >>],
      [status |-> 200,
       models |-> << OpenRouterModelPriced("image/model", None, "0", "0", "0", "0.000001"),
                     OpenRouterModel("alias/model", "free/model", "0", "0.0", None) >>] }

\* fetch_models 98-99 negated: the cache cannot answer, the API is asked
\* regardless of the cache
MustFetchAlways(p, force_refresh, t) == TRUE

MustFetch(p, force_refresh, t) ==
    ~(/\ ~force_refresh
      /\ p.cache # <<>>
      /\ p.cache_expiry # <<>>
      /\ t < p.cache_expiry[1])

\* _fetch_from_api 136, with the key never looked at
HasKeyAlways(api_key) == TRUE

HasKey(api_key) == Truthy(api_key)

\* what the call gives its caller once fetch_models is through
CallOutcome(call, fetched) ==
    IF call.call = "ensure_model_is_free"
    THEN ensure_model_is_free_in(fetched, call.model_id)
    ELSE fetched

InFlight(c) == policyCalls.of[c].pc \in {"lock", "api"}

\* FreeModelPolicyService(api_key=..., cache_ttl_seconds=...)
policy_init ==
    /\ policyCalls.started = 0
    /\ \E api_key \in {"", "sk"}, ttl \in {0, 1, DEFAULT_CACHE_TTL_SECONDS} :
         /\ policy # NewPolicy(api_key, ttl)
         /\ policy' = NewPolicy(api_key, ttl)
    /\ UNCHANGED <<now, policyLock, policyCalls, apiLog, clivars, letta, startup, chatvars, memvars>>

\* service.api_key = ...
set_api_key ==
    /\ policyCalls.started < MaxPolicyCalls
    /\ \E api_key \in {"", "sk"} :
         /\ policy.api_key # api_key
         /\ policy' = [policy EXCEPT !.api_key = api_key]
    /\ UNCHANGED <<now, policyLock, policyCalls, apiLog, clivars, letta, startup, chatvars, memvars>>

\* datetime.now(timezone.utc) moves on
clock_tick ==
    /\ now < MaxClock
    /\ now' = now + 1
    /\ UNCHANGED <<policy, policyLock, policyCalls, apiLog, clivars, letta, startup, chatvars, memvars>>

StartCall(c, call, force_refresh, model_id) ==
    /\ policyCalls.of[c].pc \in {"idle", "returned"}
    /\ c = 1 \/ InFlight(1)
    /\ policyCalls.started < MaxPolicyCalls
    /\ policyCalls' =
         [started |-> policyCalls.started + 1,
          of |-> [policyCalls.of EXCEPT ![c] =
                    [pc |-> "lock", call |-> call, force_refresh |-> force_refresh,
                     model_id |-> model_id, fetched |-> NoFetch, outcome |-> NoFetch,
                     nth |-> policyCalls.started + 1,
                     beside |-> { d \in PolicyClients : InFlight(d) },
                     stale |-> FALSE, api_key |-> None]]]
    /\ UNCHANGED <<policy, now, policyLock, apiLog, clivars, letta, startup, chatvars, memvars>>

\* a task is created for fetch_models(force_refresh=...); it has not run yet
fetch_models(c) ==
    \E force_refresh \in BOOLEAN : StartCall(c, "fetch_models", force_refresh, None)

\* a task is created for ensure_model_is_free(model_id), which goes through
\* get_model into fetch_models() without giving up control
ensure_model_is_free_call(c) ==
    \E model_id \in {"free/model", "paid/model", "image/model", "unknown/model"} :
      StartCall(c, "ensure_model_is_free", FALSE, model_id)

CallReturned(call, fetched) ==
    [call EXCEPT !.pc = "returned", !.fetched = fetched,
                 !.outcome = CallOutcome(call, fetched)]

\* the cached list is there and its expiry has passed
Expired(p, t) == p.cache # <<>> /\ p.cache_expiry # <<>> /\ t >= p.cache_expiry[1]

\* the task gets the lock: the cache answers, or the key is missing, or the
\* GET is sent and the task waits for the answer holding the lock
fetch_models_locked(c) ==
    /\ policyCalls.of[c].pc = "lock"
    /\ policyLock = 0
    /\ LET call == [policyCalls.of[c] EXCEPT !.stale = Expired(policy, now),
                                             !.api_key = policy.api_key]
       IN  IF ~MustFetch(policy, call.force_refresh, now)
           THEN /\ policyCalls' = [policyCalls EXCEPT !.of[c] =
                       CallReturned(call, [raised |-> NoException, models |-> policy.cache])]
                /\ UNCHANGED <<policyLock, apiLog>>
           ELSE IF ~HasKey(policy.api_key)
           THEN /\ policyCalls' = [policyCalls EXCEPT !.of[c] =
                       CallReturned(call, [raised |-> MissingOpenRouterAPIKeyError,
                                           models |-> <<>>])]
                /\ UNCHANGED <<policyLock, apiLog>>
           ELSE /\ policyCalls' = [policyCalls EXCEPT !.of[c] = [call EXCEPT !.pc = "api"]]
                /\ policyLock' = c
                /\ apiLog' = Append(apiLog,
                       [nth |-> call.nth, force_refresh |-> call.force_refresh,
                        fresh |-> policy.cache # <<>> /\ ~Expired(policy, now),
                        answered |-> FALSE, raised |-> NoException, kept |-> TRUE])
    /\ UNCHANGED <<policy, now, clivars, letta, startup, chatvars, memvars>>

\* the marketplace answers the GET: lines 147-178, then 103-105
fetch_models_answered(c) ==
    /\ policyCalls.of[c].pc = "api"
    /\ policyLock = c
    /\ \E answer \in ApiAnswers :
         LET call == policyCalls.of[c]
             fetched == fetch_from_api([api_key |-> "sk", status |-> answer.status,
                                        models |-> answer.models])
         IN  /\ policy' = IF fetched.raised = NoException
                          THEN [policy EXCEPT !.cache = fetched.models,
                                              !.cache_expiry = <<now + policy.cache_ttl_seconds>>]
                          ELSE policy
             /\ policyCalls' = [policyCalls EXCEPT !.of[c] = CallReturned(call, fetched)]
             /\ apiLog' = [apiLog EXCEPT ![Len(apiLog)] =
                             [@ EXCEPT !.answered = TRUE, !.raised = fetched.raised,
                                       !.kept = (policy'.cache = policy.cache /\
                                                 policy'.cache_expiry = policy.cache_expiry)]]
    /\ policyLock' = 0
    /\ UNCHANGED <<now, clivars, letta, startup, chatvars, memvars>>

NextPolicy ==
    \/ policy_init
    \/ set_api_key
    \/ clock_tick
    \/ \E c \in PolicyClients : fetch_models(c)
    \/ \E c \in PolicyClients : ensure_model_is_free_call(c)
    \/ \E c \in PolicyClients : fetch_models_locked(c)
    \/ \E c \in PolicyClients : fetch_models_answered(c)

SpecPolicy == Init /\ [][NextPolicy]_vars

\* ---- scripts/select_openrouter_model.py: run_cli ------------------------
\* python-dotenv's set_key: the key's lines are rewritten as KEY='value',
\* one is appended when the file has none
EnvLine(key, value) == [key |-> key, text |-> key \o "='" \o value \o "'"]

set_key(lines, key, value) ==
    IF \E i \in 1..Len(lines) : lines[i].key = key
    THEN [i \in 1..Len(lines) |-> IF lines[i].key = key THEN EnvLine(key, value) ELSE lines[i]]
    ELSE Append(lines, EnvLine(key, value))

\* nothing is written
update_env_value_skipped(files, env_path, key, value) == files

\* ensure_env_file, then set_key
update_env_value(files, env_path, key, value) ==
    [files EXCEPT ![env_path] =
        [exists |-> TRUE, lines |-> set_key(files[env_path].lines, key, value)]]

\* one run of the script, in a process of its own: the service it asks is a
\* fresh singleton with the key of that process's settings, and the picker
\* returns one of the fetched models or None
run_cli ==
    \E args \in [env_file : {".env", "prod.env"}, update_example : BOOLEAN, dry_run : BOOLEAN],
       api_key \in {"", "sk"}, answer \in ApiAnswers, pick \in 0..2 :
      LET fetched == IF ~HasKey(api_key)
                     THEN [raised |-> MissingOpenRouterAPIKeyError, models |-> <<>>]
                     ELSE fetch_from_api([api_key |-> api_key, status |-> answer.status,
                                          models |-> answer.models])
          picked == fetched.raised = NoException /\ pick > 0
          selection == IF picked THEN <<fetched.models[pick]>> ELSE <<>>
          written == update_env_value(env_files, args.env_file,
                                      "OPENROUTER_MODEL_ID", selection[1].id)
      IN  /\ pick <= Len(fetched.models)
          /\ fetched.raised = NoException \/ answer.status = 500
          /\ env_files' =
               IF ~picked \/ args.dry_run THEN env_files
               ELSE IF args.update_example
               THEN update_env_value(written, ".env.example",
                                     "OPENROUTER_MODEL_ID", selection[1].id)
               ELSE written
          /\ cli' = [ran |-> TRUE, args |-> args, raised |-> fetched.raised,
                     selection |-> selection,
                     exit_code |-> IF picked THEN 0 ELSE 1,
                     before |-> env_files]
          /\ UNCHANGED <<policyvars, letta, startup, chatvars, memvars>>

NextCli == run_cli

SpecCli == Init /\ [][NextCli]_vars

\* ---- app/utils/letta_patch.py --------------------------------------------
\* _patch_utils_module, and the same two assignments in patched_install
patch_utils_module(l) ==
    [l EXCEPT !.original_save = l.save_fn,
              !.save_fn = "_patched_save_conversation_turn_async",
              !.last = "patched"]

\* the hook run n times
RECURSIVE PatchTimes(_, _)
PatchTimes(l, n) == IF n = 0 THEN l ELSE PatchTimes(patch_utils_module(l), n - 1)

\* Python imports agentic_learning.interceptors: the waiting
\* patch_interceptors_init hooks each wrap module.install
ImportInterceptors(l) ==
    IF l.interceptors_imported THEN l
    ELSE [l EXCEPT !.interceptors_imported = TRUE,
                   !.install_wraps = l.install_wraps + l.init_hooks,
                   !.init_hooks = 0]

\* Python imports agentic_learning.interceptors.utils, its package first:
\* the waiting _patch_utils_module hooks run
ImportUtils(l) ==
    IF l.utils_imported THEN l
    ELSE LET m == ImportInterceptors(l)
         IN  PatchTimes([m EXCEPT !.utils_imported = TRUE, !.utils_hooks = 0], m.utils_hooks)

\* somebody imports the SDK's modules
import_sdk ==
    /\ \/ ~letta.interceptors_imported /\ letta' = ImportInterceptors(letta)
       \/ ~letta.utils_imported /\ letta' = ImportUtils(letta)
    /\ UNCHANGED <<policyvars, clivars, startup, chatvars, memvars>>

\* register_post_import_hook runs the hook at once for a module already
\* imported and keeps it for the import otherwise
apply_letta_patch ==
    /\ letta.ops < MaxPatchOps
    /\ LET l == [letta EXCEPT !.ops = @ + 1]
           u == IF l.utils_imported THEN patch_utils_module(l)
                ELSE [l EXCEPT !.utils_hooks = @ + 1]
       IN  letta' = IF u.interceptors_imported
                    THEN [u EXCEPT !.install_wraps = @ + 1]
                    ELSE [u EXCEPT !.init_hooks = @ + 1]
    /\ UNCHANGED <<policyvars, clivars, startup, chatvars, memvars>>

\* agentic_learning.interceptors.install(): the SDK's own install, then for
\* every patched_install layer the re-patch of lines 124-127
install ==
    /\ letta.ops < MaxPatchOps
    /\ letta.interceptors_imported
    /\ LET l == [letta EXCEPT !.ops = @ + 1]
       IN  letta' = IF l.install_wraps = 0 THEN l
                    ELSE PatchTimes(ImportUtils(l), l.install_wraps)
    /\ UNCHANGED <<policyvars, clivars, startup, chatvars, memvars>>

remove_letta_patch ==
    /\ letta.ops < MaxPatchOps
    /\ LET l == [letta EXCEPT !.ops = @ + 1, !.last = "removed"]
       IN  letta' = IF l.original_save # None
                    THEN [ImportUtils(l) EXCEPT !.save_fn = l.original_save,
                                                !.last = "removed"]
                    ELSE l
    /\ UNCHANGED <<policyvars, clivars, startup, chatvars, memvars>>

NextLetta ==
    \/ import_sdk
    \/ apply_letta_patch
    \/ install
    \/ remove_letta_patch

SpecLetta == Init /\ [][NextLetta]_vars

\* ---- properties ----------------------------------------------------------
Kinds(frames) == [i \in 1..Len(frames) |-> frames[i].event]
Has(frames, kind) == \E i \in 1..Len(frames) : frames[i].event = kind
Count(frames, kind) == Cardinality({ i \in 1..Len(frames) : frames[i].event = kind })
Last(frames) == frames[Len(frames)]

\* the events of a turn as the client sees them, after the transport's own
\* conversation_id frame
TurnEvents == Tail(sent)

HiMessage == AssistantMessage(<<TextBlock("hi")>>)

RECURSIVE ScriptYields(_, _)
\* every yield statement the loop reaches for a whole upstream response
ScriptYields(msgs, active) ==
    IF msgs = <<>> THEN <<>>
    ELSE LET ys == MessageYields(Head(msgs), active)
         IN  ys \o ScriptYields(Tail(msgs), ys[Len(ys)].active)

\* C1: every turn that completes leaves a Conversation row for its
\* conversation_id whose messages end with the user's prompt followed by one
\* assistant message holding the accumulated content_delta text (empty text
\* when the turn failed before any content).
C1_TurnPersisted ==
    pc = "done" =>
        LET row == db[turn.conversation_id]
            n == Len(row.messages)
        IN  /\ row.exists
            /\ n >= 2
            /\ row.messages[n - 1] = ChatMessage("user", turn.message)
            /\ row.messages[n] = ChatMessage("assistant", turn.assistant_content)

\* C2: prompt "hello", upstream yields one assistant message with the text
\* block "hi" and ends the turn: the events are exactly thinking_start,
\* thinking_stop, message_start, content_delta{text:"hi"}, content_stop,
\* message_stop{stop_reason:"end_turn"}, done, and the stored messages are
\* [user "hello", assistant "hi"].
C2_HelloHiScenario ==
    (pc = "done" /\ turn.message = "hello" /\ script = [fail |-> "none", msgs |-> <<HiMessage>>]) =>
        /\ Kinds(TurnEvents) = <<"thinking_start", "thinking_stop", "message_start",
                                 "content_delta", "content_stop", "message_stop", "done">>
        /\ TurnEvents[4] = Frame("content_delta", {<<"text", "hi">>})
        /\ TurnEvents[6] = Frame("message_stop", {<<"stop_reason", "end_turn">>})
        /\ db[turn.conversation_id].exists
        /\ db[turn.conversation_id].messages =
               <<ChatMessage("user", "hello"), ChatMessage("assistant", "hi")>>

\* C3: the upstream delivers one assistant text and then raises: the last
\* event of the turn is error, no done follows, and the stored conversation
\* holds the partial assistant text.
C3_MidStreamFailure ==
    (pc = "done" /\ script = [fail |-> "drain", msgs |-> <<HiMessage>>]) =>
        /\ Has(TurnEvents, "content_delta")
        /\ Last(sent).event = "error"
        /\ ~Has(sent, "done")
        /\ db[turn.conversation_id].exists
        /\ \E i \in 1..Len(db[turn.conversation_id].messages) :
               db[turn.conversation_id].messages[i] = ChatMessage("assistant", "hi")

\* C5: the events emitted for the upstream messages of a turn are the events
\* of those messages in message order and block order, none dropped,
\* duplicated or reordered, inside the thinking/message_start preamble and
\* before message_stop.
C5_OrderPreserved ==
    (pc = "done" /\ script.fail = "none") =>
        LET ys == ScriptYields(script.msgs, {})
        IN  TurnEvents =
                << Frame("thinking_start", {<<"message", "Thinking...">>}),
                   Frame("thinking_stop", {}),
                   TurnEvents[3] >>
                \o [i \in 1..Len(ys) |-> Frame(ys[i].event_type, ys[i].data)]
                \o << Frame("message_stop", {<<"stop_reason", "end_turn">>}),
                      Frame("done", {}) >>

\* C6: a tool result whose id has no open invocation still produces a
\* tool_result event, produces no tool_use_stop, raises nothing, and the turn
\* goes on to the following upstream messages.
C6_UnmatchedResult ==
    (/\ pc = "done"
     /\ script = [fail |-> "none", msgs |-> <<AssistantMessage(<<ToolResultBlock("X", TRUE)>>)>>]) =>
        /\ \E i \in 1..Len(sent) :
               /\ sent[i].event = "tool_result"
               /\ DictGet(sent[i].data, "tool_use_id") = "X"
        /\ ~Has(sent, "tool_use_stop")
        /\ ~Has(sent, "error")
        /\ Has(sent, "message_stop")

\* C7: when a disallowed tool name is requested, the turn emits a tool_result
\* flagged is_error with an explanatory message, is not aborted, and reaches
\* message_stop rather than error.
DisallowedToolRequested ==
    \E i \in 1..Len(script.msgs) : \E j \in 1..Len(script.msgs[i].content) :
        LET block == script.msgs[i].content[j]
        IN  /\ block.block = "ToolUseBlock"
            /\ EnforceToolPolicy(block.name, TRUE).raised # NoException

C7_DisallowedTool ==
    (pc = "done" /\ script.fail = "none" /\ DisallowedToolRequested) =>
        /\ \E i \in 1..Len(sent) :
               /\ sent[i].event = "tool_result"
               /\ DictGet(sent[i].data, "is_error") = TRUE
        /\ Has(sent, "message_stop")
        /\ ~Has(sent, "error")

\* C8: an exception raised while preparing or opening the upstream session
\* or while draining it is caught inside the pipeline and becomes exactly one
\* error event carrying message and type; nothing reaches the transport and
\* the stream then ends normally.
C8_ErrorsContained ==
    /\ pc # "aborted"
    /\ turn.raised = NoException
    /\ (pc = "done" /\ script.fail \in {"prepare", "open", "query"}) =>
           /\ Count(sent, "error") = 1
           /\ \A i \in 1..Len(sent) : sent[i].event = "error" =>
                  /\ DictGet(sent[i].data, "error") # None
                  /\ DictGet(sent[i].data, "type") # None

\* C9: every successful turn ends with exactly one done event with an empty
\* payload, and nothing is delivered after it.
C9_DoneClosesTurn ==
    /\ \A i \in 1..Len(sent) : sent[i].event = "done" => (i = Len(sent) /\ sent[i].data = {})
    /\ (pc = "done" /\ Has(sent, "message_stop")) => Last(sent) = Frame("done", {})

C9_Witness ==
    /\ pc = "done"
    /\ turn.transport = "ws"
    /\ Has(sent, "message_stop")
    /\ ~Has(sent, "error")
    /\ Count(sent, "done") = 1

\* C10: a turn that carries session_id T (and no reset) resumes the upstream
\* session with exactly T, and a turn without one resumes the token stored by
\* the previous turn of the conversation.
C10_ResumptionRoundTrip ==
    (/\ httpResponse.status # 0
     /\ httpResponse.body.session_id \in SessionTokens
     /\ ~("reset_session" \in DOMAIN httpResponse.body /\ httpResponse.body.reset_session)) =>
        /\ httpResponse.status = 200
        /\ (turn.transport = "sse" /\ gen.pc \in {"opened", "query", "loop", "closing", "stopped", "closed"}) =>
               Last(sessions).resume = httpResponse.body.session_id

\* C12: a request with reset_session true opens a fresh upstream session with
\* no resume token; any other request resumes the request's session_id when
\* it carries one, else the token stored with the conversation, else nothing.
C12_SessionResolution ==
    httpResponse.status # 0 =>
        LET body == httpResponse.body
            reset == "reset_session" \in DOMAIN body /\ body.reset_session
            stored == IF Truthy(body.conversation_id) /\ db[body.conversation_id].exists
                      THEN db[body.conversation_id].extra_data
                      ELSE None
            expected == IF reset THEN None
                        ELSE IF Truthy(body.session_id) THEN body.session_id
                        ELSE stored
        IN  /\ httpResponse.status = 200
            /\ (pc = "streaming" /\ turn.transport = "sse") => turn.session_id = expected

\* C15: when a turn completes, with success or with an error, the audit log
\* holds one record for it: its conversation_id and the ordered list of every
\* event the turn emitted, none missing.
C15_AuditRecord ==
    pc = "done" =>
        /\ auditLog.written
        /\ auditLog.saved_at # None
        /\ auditLog.conversation_id = turn.conversation_id
        /\ auditLog.events = sent

\* C16: when the client disconnects in the middle of a turn, no further
\* upstream message is pulled for the turn, and what is stored as the turn's
\* transcript is the user's prompt followed by the content accumulated up to
\* the disconnect.
C16_DisconnectKeepsTranscript ==
    pc = "disconnected" =>
        LET row == db[turn.conversation_id]
            transcript ==
                IF turn.assistant_content # ""
                THEN <<ChatMessage("user", turn.message),
                       ChatMessage("assistant", turn.assistant_content)>>
                ELSE <<ChatMessage("user", turn.message)>>
            n == Len(row.messages)
        IN  /\ gen = NoGenerator
            /\ row.exists
            /\ n >= Len(transcript)
            /\ SubSeq(row.messages, n - Len(transcript) + 1, n) = transcript

\* C19: two turns that run at the same time on one conversation_id both
\* complete without error and persist; the stored messages are those written
\* by the turn that commits last.
C19_ConcurrentTurns ==
    /\ (/\ httpResponse.status # 0
        /\ Truthy(httpResponse.body.conversation_id)
        /\ httpResponse.body.conversation_id \in httpResponse.concurrent) =>
           /\ httpResponse.status = 200
           /\ httpResponse.raised = NoException
    /\ (pc = "done" /\ turn.transport = "sse") =>
           /\ db[turn.conversation_id].exists
           /\ db[turn.conversation_id].messages = turn.all_messages

\* the prices that mean "free"
ZeroPrices == {None, "", "0", "0.0", "0.00"}

\* the catalogue really lists the configured model at price zero
ConfiguredModelIsFree(env) ==
    /\ env.api_key # ""
    /\ env.status = 200
    /\ \E i \in 1..Len(env.models) :
         /\ env.models[i].id = OpenrouterModelId
         /\ env.models[i].pricing.prompt \in ZeroPrices
         /\ env.models[i].pricing.completion \in ZeroPrices
         /\ env.models[i].pricing.request \in ZeroPrices

\* C20: no turn is accepted before the configured model has been validated
\* as present in the catalogue and free; when the validation fails for any
\* reason (no API key, model not found, model not free, catalogue error) the
\* startup is aborted and no turn is ever served.
C20_ValidatedBeforeServing ==
    /\ (turns > 0 \/ pc # "idle" \/ httpResponse.status # 0) =>
           (startup.phase = "serving" /\ ConfiguredModelIsFree(startup.env))
    /\ (startup.phase # "starting" /\ ~ConfiguredModelIsFree(startup.env)) =>
           (startup.phase = "aborted" /\ startup.raised # NoException)

C20_Witness ==
    /\ startup.phase = "serving"
    /\ ConfiguredModelIsFree(startup.env)
    /\ pc = "done"
    /\ turns > 0

C17_OnePerKey ==
    \A type \in MemoryTypes, key \in MemoryKeys :
        Cardinality(RowsByKey(memory_blocks, type, key)) <= 1

\* two upsert_memory calls, one after the other and nothing else between,
\* with the same (type, key) and different values, the first finding no row
SequentialUpserts ==
    /\ Len(memLog.upserts) = 2
    /\ memLog.upserts[1].clean
    /\ memLog.upserts[2].clean
    /\ memLog.upserts[1].memory.type = memLog.upserts[2].memory.type
    /\ memLog.upserts[1].memory.key = memLog.upserts[2].memory.key
    /\ memLog.upserts[1].memory.value # memLog.upserts[2].memory.value
    /\ memLog.upserts[1].matched = 0

\* exactly one row for the key of the two calls, with the second call's value
\* and the id the first call created
SecondValueFirstId ==
    LET first == memLog.upserts[1]
        second == memLog.upserts[2]
    IN  /\ first.id # None
        /\ RowsByKey(memory_blocks, first.memory.type, first.memory.key) =
               { MemoryBlockDB(first.id, first.memory.type, first.memory.key, second.memory.value) }

\* C18: upserting a MemoryBlock twice, one call after the other, with the
\* same (type, key) and different values leaves exactly one row, with the
\* second call's value and the id created by the first.
C18_UpsertTwice == SequentialUpserts => SecondValueFirstId

\* C18, amended: the same, provided the id carried by the first call, if it
\* carries one, is not the id of a row already in the store.
C18_UpsertTwiceUnusedId ==
    (SequentialUpserts /\ ~memLog.upserts[1].id_taken) => SecondValueFirstId

C18_Witness ==
    /\ SequentialUpserts
    /\ ~memLog.upserts[1].id_taken
    /\ memLog.upserts[1].memory.id = "m1"
    /\ memory_blocks # {}
    /\ SecondValueFirstId


\* the calls of ensure_model_is_free that have returned on a fetched catalogue
EnsureReturned(c) ==
    /\ policyCalls.of[c].pc = "returned"
    /\ policyCalls.of[c].call = "ensure_model_is_free"
    /\ policyCalls.of[c].fetched.raised = NoException

\* the catalogue entries an id names, by id or by canonical slug
Matches(models, model_id) ==
    { i \in 1..Len(models) : models[i].id = model_id \/ models[i].canonical_slug = model_id }

\* some component of the entry's pricing object is not zero
AnyNonZeroComponent(model) ==
    \E k \in DOMAIN model.pricing : model.pricing[k] \notin ZeroPrices

\* C21: for every catalogue and every model id, ensure_model_is_free returns
\* the catalogue entry when the id is present and no pricing component of the
\* entry is non-zero, raises ModelNotFreeError when the id is present and any
\* pricing component is non-zero, and raises ModelNotFoundError when no entry
\* matches the id.
C21_EnsureModelIsFree ==
    \A c \in PolicyClients :
      EnsureReturned(c) =>
        LET call == policyCalls.of[c]
            hits == Matches(call.fetched.models, call.model_id)
        IN  /\ hits = {} => call.outcome.raised = ModelNotFoundError
            /\ \A i \in hits :
                 IF AnyNonZeroComponent(call.fetched.models[i])
                 THEN call.outcome.raised = ModelNotFreeError
                 ELSE /\ call.outcome.raised = NoException
                      /\ call.outcome.models = <<call.fetched.models[i]>>


\* the call has to contact the marketplace: forced, or no cache, or expired
NeedsApi(c) ==
    \/ policyCalls.of[c].force_refresh
    \/ policy.cache = <<>>
    \/ Expired(policy, now)

\* C22: fetch_models on a service whose API key is empty raises
\* MissingOpenRouterAPIKeyError whenever it has to contact the marketplace
\* API (forced refresh, empty or expired cache), and leaves the cached list
\* and its expiry unchanged.
C22_MissingKeyRaises ==
    [][\A c \in PolicyClients :
         (/\ policyCalls.of[c].pc = "lock"
          /\ policyCalls'.of[c].pc # "lock"
          /\ policy.api_key = ""
          /\ NeedsApi(c))
         => /\ policyCalls'.of[c].pc = "returned"
            /\ policyCalls'.of[c].outcome.raised = MissingOpenRouterAPIKeyError
            /\ policy'.cache = policy.cache
            /\ policy'.cache_expiry = policy.cache_expiry
            /\ apiLog' = apiLog]_vars

\* a refresh was forced on a filled cache after the key had been emptied
C22_Witness ==
    \E c \in PolicyClients :
      /\ policyCalls.of[c].pc = "returned"
      /\ policyCalls.of[c].call = "fetch_models"
      /\ policyCalls.of[c].force_refresh
      /\ policyCalls.of[c].api_key = ""
      /\ policyCalls.of[c].outcome.raised = MissingOpenRouterAPIKeyError
      /\ policy.cache # <<>>

\* the first two calls of the service, made at the same time without
\* force_refresh on a positive TTL, have both returned
ConcurrentFetches(c, d) ==
    /\ c # d
    /\ policy.cache_ttl_seconds > 0
    /\ \A e \in {c, d} :
         /\ policyCalls.of[e].pc = "returned"
         /\ policyCalls.of[e].call = "fetch_models"
         /\ ~policyCalls.of[e].force_refresh
    /\ {policyCalls.of[c].nth, policyCalls.of[d].nth} = {1, 2}
    /\ c \in policyCalls.of[d].beside \/ d \in policyCalls.of[c].beside

\* no call without force_refresh asked the API while the cache was fresh
NoFetchWhileFresh ==
    \A i \in 1..Len(apiLog) : apiLog[i].fresh => apiLog[i].force_refresh

\* a fetch that failed left the cache and its expiry as they were
FailedFetchKeepsCache ==
    \A i \in 1..Len(apiLog) :
      (apiLog[i].answered /\ apiLog[i].raised # NoException) => apiLog[i].kept

OneFetchSameList(c, d) ==
    /\ Len(apiLog) = 1
    /\ policyCalls.of[c].outcome.raised = NoException
    /\ policyCalls.of[c].outcome = policyCalls.of[d].outcome

\* C30: for any number of concurrent fetch_models calls without force_refresh
\* on a service with an empty cache and a positive TTL, exactly one API fetch
\* is performed and every caller receives that same list; while the cache has
\* not expired no further API fetch happens, and a failed fetch leaves the
\* previous cache in place.
C30_SingleFetch ==
    /\ \A c, d \in PolicyClients : ConcurrentFetches(c, d) => OneFetchSameList(c, d)
    /\ NoFetchWhileFresh
    /\ FailedFetchKeepsCache

\* C30, amended: the same for callers that found an API key, when the first
\* fetch succeeded and the cache it filled had not expired when the other
\* caller got the lock.
C30_SingleFetchOnSuccess ==
    /\ \A c, d \in PolicyClients :
         (/\ ConcurrentFetches(c, d)
          /\ policyCalls.of[c].api_key # "" /\ policyCalls.of[d].api_key # ""
          /\ ~policyCalls.of[c].stale /\ ~policyCalls.of[d].stale
          /\ apiLog # <<>> /\ apiLog[1].raised = NoException)
         => OneFetchSameList(c, d)
    /\ NoFetchWhileFresh
    /\ FailedFetchKeepsCache

\* two concurrent callers, one fetch, one list; and a later fetch that failed
C30_Witness ==
    \E c, d \in PolicyClients :
      /\ ConcurrentFetches(c, d)
      /\ policyCalls.of[c].api_key # "" /\ policyCalls.of[d].api_key # ""
      /\ Len(apiLog) = 1
      /\ apiLog[1].answered /\ apiLog[1].raised = NoException
      /\ policyCalls.of[c].outcome.models = policy.cache
      /\ policyCalls.of[d].outcome.models = policy.cache


\* the file sets OPENROUTER_MODEL_ID, once, to the model id
HoldsModelId(file, model_id) ==
    /\ file.exists
    /\ \E i \in 1..Len(file.lines) : file.lines[i].key = "OPENROUTER_MODEL_ID"
    /\ \A i \in 1..Len(file.lines) :
         file.lines[i].key = "OPENROUTER_MODEL_ID" =>
           file.lines[i].text = "OPENROUTER_MODEL_ID='" \o model_id \o "'"

C24_PatchAndRestore ==
    /\ letta.last = "patched" => letta.save_fn = "_patched_save_conversation_turn_async"
    /\ letta.last = "removed" => letta.save_fn = "_save_conversation_turn_async"


\* the frames of the turn that carry the normalizer's events: not the
\* transport's own conversation_id and done frames, nor the error frame the
\* WebSocket handler sends for an exception that left the generator
NormalizerFrames(frames) ==
    LET own(f) == f.event \notin {"conversation_id", "done"}
        relayed == IF turn.transport = "ws" /\ turn.raised # NoException /\ frames # <<>>
                   THEN SubSeq(frames, 1, Len(frames) - 1)
                   ELSE frames
    IN  SelectSeq(relayed, own)

\* C25: every event kind the normalizer constructs for an upstream message is
\* accepted by the envelope's event_type enumeration, so constructing an event
\* never fails validation and a turn whose upstream messages all arrive and
\* whose session ends cleanly carries no error event.
C25_EventKindsAccepted ==
    /\ \A i \in 1..Len(gen.pending) : ValidEventType(gen.pending[i].event_type)
    /\ (pc \in {"streaming", "done"} /\ script.fail = "none") => ~Has(sent, "error")

\* C26: in every turn the normalizer emits message_stop or error, never both,
\* nothing after either, and exactly one of them once it has finished.
C26_OneTerminalState ==
    LET emitted == NormalizerFrames(sent)
        terminals == { i \in 1..Len(emitted) : emitted[i].event \in {"message_stop", "error"} }
    IN  /\ Cardinality(terminals) <= 1
        /\ \A i \in terminals : i = Len(emitted)
        /\ (pc \in {"streaming", "done", "aborted"} /\ gen.pc = "closed") =>
               Cardinality(terminals) = 1

\* the init messages of the upstream response
InitMessages(msgs) ==
    { i \in 1..Len(msgs) : msgs[i].type = "SystemMessage" /\ msgs[i].subtype = "init" }

C28_TranscriptMatchesDelivered ==
    pc \in {"streaming", "done"} =>
        NormalizerFrames(turn.captured_events) = NormalizerFrames(sent)

\* C29: a turn requested with include_memory false does not attach the label
\* set that include_memory true attaches.
C29_LabelsSelected ==
    (/\ pc \in {"streaming", "done"}
     /\ gen.pc \notin {"start"}
     /\ gen.memory_labels = MemoryLabels(FALSE)) =>
        gen.memory_config # MemoryLabels(TRUE)

====
